---- MODULE Spec2Model ----
(***************************************************************************)
(* Playback engine of the algorithm visualizer                             *)
(* (src/algorithm-visualizer.jsx, SECTION 3: playbackReducer and           *)
(* usePlaybackEngine).                                                     *)
(*                                                                         *)
(* The reducer state is the record `state`.  The speed multiplier lives in *)
(* the ref `speedRef`; it is kept in tenths (1.0x = 10), the step of the   *)
(* speed slider.  `timers` is the set of intervals the host has scheduled  *)
(* (setInterval / clearInterval), each with the delay fixed when it was    *)
(* scheduled.  The useEffect of usePlaybackEngine is a callback of its     *)
(* own: React runs it after the render that changed state.isPlaying was    *)
(* committed, and always before the next render, so every dispatch first   *)
(* flushes a pending effect and then applies the reducer.                  *)
(***************************************************************************)
EXTENDS Integers, Sequences, FiniteSets, TLC

VARIABLES
    state,        \* reducer state {trace, currentStepIndex, isPlaying}
    speedRef,     \* speedRef.current, in tenths
    intervalRef,  \* intervalRef.current: a timer id, 0 for null
    timers,       \* intervals scheduled in the host: records [id, delay]
    nextTimerId,  \* id the next setInterval returns
    effectDeps,   \* state.isPlaying as seen by the last run of the effect
    mounted,      \* the component that owns the engine is mounted
    lastCmd,      \* history: the last operation and its argument
    scen          \* history: consecutive Advances since position 0, and
                  \* whether the last command repeated the one before it

vars == <<state, speedRef, intervalRef, timers, nextTimerId, effectDeps,
          mounted, lastCmd, scen>>

\* ------------------------------------------------------------------ bounds

MaxSteps == 3

MaxTimers == 3

\* ------------------------------------------------------- program constants

MinSpeed == 1

MaxSpeed == 50

DefaultSpeed == 10

\* ------------------------------------------------------------------ inputs

Max(a, b) == IF a >= b THEN a ELSE b

Min(a, b) == IF a <= b THEN a ELSE b

NullTrace == [present |-> FALSE, steps |-> <<>>]

StepKind(variant) == IF variant = 0 THEN "visit" ELSE "compare"

MkTrace(len, variant) ==
    [present |-> TRUE,
     steps   |-> [i \in 1..len |-> [id |-> i - 1, type |-> StepKind(variant)]]]

TraceIds == 0 .. (2 * (MaxSteps + 1))

TraceOf(k) ==
    IF k = 0 THEN NullTrace ELSE MkTrace((k - 1) \div 2, (k - 1) % 2)

JumpArgs == (0 - 2) .. (MaxSteps + 1)

RateInputs == {0, 10, 20, 60}

\* ----------------------------------------------------------------- reducer

initialPlaybackState ==
    [trace |-> NullTrace, currentStepIndex |-> 0, isPlaying |-> FALSE]

totalSteps(s) == IF s.trace.present THEN Len(s.trace.steps) ELSE 0

\* case SET_TRACE
\* variant: spreads the old state instead of initialPlaybackState
Reduce_SET_TRACE_KeepsRest(s, action) == [s EXCEPT !.trace = action.payload]

Reduce_SET_TRACE(s, action) ==
    [initialPlaybackState EXCEPT !.trace = action.payload]

\* case PLAY
\* variant: the test for the last step is missing
Reduce_PLAY_NoEndCheck(s) ==
    IF ~s.trace.present THEN s ELSE [s EXCEPT !.isPlaying = TRUE]

\* variant: PLAY toggles the flag
Reduce_PLAY_Toggle(s) ==
    IF ~s.trace.present \/ s.currentStepIndex >= totalSteps(s) - 1
    THEN s
    ELSE [s EXCEPT !.isPlaying = ~s.isPlaying]

Reduce_PLAY(s) ==
    IF ~s.trace.present \/ s.currentStepIndex >= totalSteps(s) - 1
    THEN s
    ELSE [s EXCEPT !.isPlaying = TRUE]

\* case PAUSE
Reduce_PAUSE(s) == [s EXCEPT !.isPlaying = FALSE]

\* case TICK, case STEP_FWD
\* variant: increments without the end test
Reduce_TICK_NoEndCheck(s) ==
    [s EXCEPT !.currentStepIndex = s.currentStepIndex + 1]

\* variant: returns the state untouched at the end
Reduce_TICK_NoStopAtEnd(s) ==
    LET next == s.currentStepIndex + 1 IN
    IF next >= totalSteps(s)
    THEN s
    ELSE [s EXCEPT !.currentStepIndex = next]

\* variant: wraps around to the first step at the end
Reduce_TICK_Wrap(s) ==
    LET next == s.currentStepIndex + 1 IN
    IF next >= totalSteps(s)
    THEN [s EXCEPT !.currentStepIndex = 0]
    ELSE [s EXCEPT !.currentStepIndex = next]

Reduce_TICK(s) ==
    LET next == s.currentStepIndex + 1 IN
    IF next >= totalSteps(s)
    THEN [s EXCEPT !.isPlaying = FALSE]
    ELSE [s EXCEPT !.currentStepIndex = next]

\* case STEP_BACK
\* variant: isPlaying: false is missing
Reduce_STEP_BACK_KeepsPlaying(s) ==
    LET prev == Max(0, s.currentStepIndex - 1) IN
    [s EXCEPT !.currentStepIndex = prev]

Reduce_STEP_BACK(s) ==
    LET prev == Max(0, s.currentStepIndex - 1) IN
    [s EXCEPT !.isPlaying = FALSE, !.currentStepIndex = prev]

\* case RESET
\* variant: returns initialPlaybackState, dropping the trace
Reduce_RESET_DropsTrace(s) == initialPlaybackState

Reduce_RESET(s) == [s EXCEPT !.currentStepIndex = 0, !.isPlaying = FALSE]

\* case JUMP
\* variant: the Math.min(totalSteps - 1, ...) is missing
Reduce_JUMP_NoUpperClamp(s, action) ==
    LET idx == Max(0, action.payload) IN
    [s EXCEPT !.currentStepIndex = idx, !.isPlaying = FALSE]

\* variant: the Math.max(0, ...) is missing
Reduce_JUMP_NoLowerClamp(s, action) ==
    LET idx == Min(totalSteps(s) - 1, action.payload) IN
    [s EXCEPT !.currentStepIndex = idx, !.isPlaying = FALSE]

Reduce_JUMP(s, action) ==
    LET idx == Max(0, Min(totalSteps(s) - 1, action.payload)) IN
    [s EXCEPT !.currentStepIndex = idx, !.isPlaying = FALSE]

playbackReducer(s, action) ==
    CASE action.type = "SET_TRACE" -> Reduce_SET_TRACE(s, action)
      [] action.type = "PLAY" -> Reduce_PLAY(s)
      [] action.type = "PAUSE" -> Reduce_PAUSE(s)
      [] action.type \in {"TICK", "STEP_FWD"} -> Reduce_TICK(s)
      [] action.type = "STEP_BACK" -> Reduce_STEP_BACK(s)
      [] action.type = "RESET" -> Reduce_RESET(s)
      [] action.type = "JUMP" -> Reduce_JUMP(s, action)
      [] OTHER -> s

\* ------------------------------------------------------------ timer driver

\* variant: Math.floor instead of Math.round
speedToDelay_Floor(spd) == (1000 * 10) \div spd

\* Math.round(1000 / spd), spd in tenths: round half up of 10000 / spd.
speedToDelay(spd) == (2 * 1000 * 10 + spd) \div (2 * spd)

Eng == [intervalRef |-> intervalRef, timers |-> timers,
        nextTimerId |-> nextTimerId]

clearInterval(tm, id) == {t \in tm : t.id # id}

\* variant: the effect returns no cleanup
EffectCleanup_Noop(e) == e

\* the function the effect returns: () => clearInterval(intervalRef.current)
EffectCleanup(e) ==
    [e EXCEPT !.timers = clearInterval(@, e.intervalRef)]

\* variant: the id setInterval returns is not stored in intervalRef
EffectBody_NoStore(e, isPlaying, spd) ==
    IF isPlaying
    THEN [intervalRef |-> e.intervalRef,
          timers      |-> e.timers \cup
                          {[id |-> e.nextTimerId, delay |-> speedToDelay(spd)]},
          nextTimerId |-> e.nextTimerId + 1]
    ELSE [e EXCEPT !.timers = clearInterval(@, e.intervalRef)]

\* the body of the effect, run with the committed state.isPlaying
EffectBody(e, isPlaying, spd) ==
    IF isPlaying
    THEN [intervalRef |-> e.nextTimerId,
          timers      |-> e.timers \cup
                          {[id |-> e.nextTimerId, delay |-> speedToDelay(spd)]},
          nextTimerId |-> e.nextTimerId + 1]
    ELSE [e EXCEPT !.timers = clearInterval(@, e.intervalRef)]

EffectPending == mounted /\ state.isPlaying # effectDeps

\* React re-runs the effect when its dependency [state.isPlaying] changed:
\* the previous run's cleanup first, then the body.
FlushEffects(e) ==
    IF EffectPending
    THEN EffectBody(EffectCleanup(e), state.isPlaying, speedRef)
    ELSE e

SetEng(e) ==
    /\ intervalRef' = e.intervalRef
    /\ timers' = e.timers
    /\ nextTimerId' = e.nextTimerId

\* ----------------------------------------------------------------- history

IsAdvance(type) == type \in {"TICK", "STEP_FWD"}

ScenAfter(s, type, s2) ==
    IF IsAdvance(type)
    THEN IF scen.n >= 0 /\ scen.n < totalSteps(s)
         THEN [scen EXCEPT !.n = @ + 1]
         ELSE [n |-> 0 - 1, played |-> FALSE]
    ELSE IF s2.currentStepIndex = 0
         THEN [n |-> 0,
               played |-> type = "PLAY" /\ s.currentStepIndex = 0
                          /\ ~s.isPlaying /\ s2.isPlaying]
         ELSE [n |-> 0 - 1, played |-> FALSE]

\* the action dispatched now is the one that was dispatched last
Repeats(action) ==
    /\ lastCmd.type = action.type
    /\ IF action.type = "SET_TRACE"
       THEN TraceOf(lastCmd.payload) = action.payload
       ELSE IF action.type = "JUMP"
       THEN lastCmd.payload = action.payload
       ELSE TRUE

\* ---------------------------------------------------------------- commands

\* dispatch(action): pending effects are flushed, then the reducer runs.
Dispatch(action) ==
    /\ SetEng(FlushEffects(Eng))
    /\ effectDeps' = state.isPlaying
    /\ state' = playbackReducer(state, action)
    /\ scen' = LET r == ScenAfter(state, action.type, state') IN
               [n |-> r.n, played |-> r.played, rep |-> Repeats(action)]
    /\ UNCHANGED <<speedRef, mounted>>

Init ==
    /\ \E k \in TraceIds :
          /\ state = [initialPlaybackState EXCEPT !.trace = TraceOf(k)]
          /\ lastCmd = [type |-> "INIT", payload |-> k]
    /\ speedRef = DefaultSpeed
    /\ intervalRef = 0
    /\ timers = {}
    /\ nextTimerId = 1
    /\ effectDeps = FALSE
    /\ mounted = TRUE
    /\ scen = [n |-> 0, played |-> FALSE, rep |-> FALSE]

play ==
    /\ mounted
    /\ nextTimerId <= MaxTimers
    /\ Dispatch([type |-> "PLAY", payload |-> 0])
    /\ lastCmd' = [type |-> "PLAY", payload |-> 0]

pause ==
    /\ mounted
    /\ Dispatch([type |-> "PAUSE", payload |-> 0])
    /\ lastCmd' = [type |-> "PAUSE", payload |-> 0]

stepFwd ==
    /\ mounted
    /\ Dispatch([type |-> "STEP_FWD", payload |-> 0])
    /\ lastCmd' = [type |-> "STEP_FWD", payload |-> 0]

stepBack ==
    /\ mounted
    /\ Dispatch([type |-> "STEP_BACK", payload |-> 0])
    /\ lastCmd' = [type |-> "STEP_BACK", payload |-> 0]

reset ==
    /\ mounted
    /\ Dispatch([type |-> "RESET", payload |-> 0])
    /\ lastCmd' = [type |-> "RESET", payload |-> 0]

jumpTo(i) ==
    /\ mounted
    /\ Dispatch([type |-> "JUMP", payload |-> i])
    /\ lastCmd' = [type |-> "JUMP", payload |-> i]

setTrace(k) ==
    /\ mounted
    /\ Dispatch([type |-> "SET_TRACE", payload |-> TraceOf(k)])
    /\ lastCmd' = [type |-> "SET_TRACE", payload |-> k]

\* An action of a type the reducer does not know reaches its default case.
dispatchUnknown ==
    /\ mounted
    /\ Dispatch([type |-> "UNKNOWN", payload |-> 0])
    /\ lastCmd' = [type |-> "UNKNOWN", payload |-> 0]

\* variant: the rate is stored without clamping
setSpeed_NoClamp(spd) ==
    /\ mounted
    /\ speedRef' = spd
    /\ lastCmd' = [type |-> "SET_SPEED", payload |-> spd]
    /\ UNCHANGED <<state, intervalRef, timers, nextTimerId, effectDeps,
                   mounted, scen>>

\* variant: the scheduled interval is re-created with the new delay
setSpeed_Restart(spd) ==
    /\ mounted
    /\ speedRef' = Max(MinSpeed, Min(MaxSpeed, spd))
    /\ lastCmd' = [type |-> "SET_SPEED", payload |-> spd]
    /\ timers' = {[t EXCEPT !.delay = speedToDelay(speedRef')] : t \in timers}
    /\ UNCHANGED <<state, intervalRef, nextTimerId, effectDeps, mounted, scen>>

setSpeed(spd) ==
    /\ mounted
    /\ speedRef' = Max(MinSpeed, Min(MaxSpeed, spd))
    /\ lastCmd' = [type |-> "SET_SPEED", payload |-> spd]
    /\ UNCHANGED <<state, intervalRef, timers, nextTimerId, effectDeps,
                   mounted, scen>>

\* A scheduled interval fires: its callback dispatches TICK.  The payload of
\* the history record is the delay the interval was scheduled with.  A
\* dispatch into an unmounted component is dropped by React.
Tick ==
    \E t \in timers :
        /\ lastCmd' = [type |-> "TICK", payload |-> t.delay]
        /\ IF mounted
           THEN Dispatch([type |-> "TICK", payload |-> 0])
           ELSE UNCHANGED <<state, speedRef, intervalRef, timers, nextTimerId,
                            effectDeps, mounted, scen>>

\* React runs the pending effect on its own, after the commit.
EffectRun ==
    /\ EffectPending
    /\ SetEng(FlushEffects(Eng))
    /\ effectDeps' = state.isPlaying
    /\ lastCmd' = [type |-> "EFFECT", payload |-> 0]
    /\ UNCHANGED <<state, speedRef, mounted, scen>>

\* The engine is disposed: the component unmounts and React runs the
\* cleanup of the last effect (after any effect that was still pending).
\* Disposal is this teardown as a whole; the reducer state is gone with it.
Dispose ==
    /\ mounted
    /\ mounted' = FALSE
    /\ SetEng(EffectCleanup(FlushEffects(Eng)))
    /\ effectDeps' = state.isPlaying
    /\ lastCmd' = [type |-> "UNMOUNT", payload |-> 0]
    /\ UNCHANGED <<state, speedRef, scen>>

\* ----------------------------------------------------------------- context

\* The value a consumer gets from useContext(PlaybackContext): the engine
\* inside a PlaybackProvider, the default null of createContext outside.
ContextValue(inProvider) == [isNull |-> ~inProvider]

\* variant: the provider check is missing
usePlayback_NoCheck(ctx) == "READ"

\* usePlayback: throws when the context is null, returns it otherwise.
usePlayback(ctx) == IF ctx.isNull THEN "READ_THROW" ELSE "READ"

\* A consumer component renders and reads the engine through usePlayback.
Consume(inProvider) ==
    /\ mounted
    /\ lastCmd' = [type    |-> usePlayback(ContextValue(inProvider)),
                   payload |-> IF inProvider THEN 1 ELSE 0]
    /\ UNCHANGED <<state, speedRef, intervalRef, timers, nextTimerId,
                   effectDeps, mounted, scen>>

Next ==
    \/ play
    \/ pause
    \/ stepFwd
    \/ stepBack
    \/ reset
    \/ \E i \in JumpArgs : jumpTo(i)
    \/ \E k \in TraceIds : setTrace(k)
    \/ dispatchUnknown
    \/ \E spd \in RateInputs : setSpeed(spd)
    \/ \E inProvider \in BOOLEAN : Consume(inProvider)
    \/ Tick
    \/ EffectRun
    \/ Dispose

Spec == Init /\ [][Next]_vars

\* Autoplay left alone: user commands are issued only until a Play has
\* succeeded; from then on only the interval and React's effect act.  The
\* interval keeps firing while it is scheduled and React runs every pending
\* effect, hence the weak fairness on both.
UserPhase == ~state.isPlaying /\ lastCmd.type \notin {"TICK", "EFFECT"}

UserCommand ==
    \/ play
    \/ pause
    \/ stepFwd
    \/ stepBack
    \/ reset
    \/ \E i \in JumpArgs : jumpTo(i)
    \/ \E k \in TraceIds : setTrace(k)
    \/ dispatchUnknown
    \/ \E spd \in RateInputs : setSpeed(spd)
    \/ \E inProvider \in BOOLEAN : Consume(inProvider)
    \/ Dispose

NextAutoplay ==
    \/ UserPhase /\ UserCommand
    \/ Tick
    \/ EffectRun

AutoplaySpec ==
    Init /\ [][NextAutoplay]_vars /\ WF_vars(Tick) /\ WF_vars(EffectRun)

\* The speed slider: min 0.1, max 5, step 0.1 (in tenths).
SliderRates == MinSpeed .. MaxSpeed

\* The speed control alone: the user moves the slider and presses Play, and
\* the effect schedules the interval with the delay of the rate set then.
NextRate ==
    \/ \E spd \in SliderRates : setSpeed(spd)
    \/ play
    \/ EffectRun

RateSpec == Init /\ [][NextRate]_vars

\* ------------------------------------------------------------- abbreviations

N == totalSteps(state)

position == state.currentStepIndex

\* ---------------------------------------------------------- derived fields

NullStep == [id |-> 0 - 1, type |-> "null"]

\* variant: the index is off by one
currentStep_OffByOne ==
    IF state.trace.present
       /\ state.currentStepIndex + 2 \in DOMAIN state.trace.steps
    THEN state.trace.steps[state.currentStepIndex + 2]
    ELSE NullStep

\* state.trace?.steps[state.currentStepIndex] ?? null  (steps is 1-based here)
currentStep ==
    IF state.trace.present
       /\ state.currentStepIndex + 1 \in DOMAIN state.trace.steps
    THEN state.trace.steps[state.currentStepIndex + 1]
    ELSE NullStep

\* state.trace?.steps.length ?? 0
engineTotalSteps ==
    IF state.trace.present THEN Len(state.trace.steps) ELSE 0

\* variant: compares with totalSteps instead of totalSteps - 1
isAtEnd_OffByOne == state.currentStepIndex >= engineTotalSteps

isAtEnd == state.currentStepIndex >= engineTotalSteps - 1

isAtStart == state.currentStepIndex = 0

\* ==================================================================== claims

\* C1: in every reachable state the position is within the loaded trace:
\* 0 <= position <= max(0, len(steps) - 1) when a trace is present, and
\* position = 0 when the trace is absent.
C1_PositionInBounds ==
    IF state.trace.present
    THEN 0 <= position /\ position <= Max(0, Len(state.trace.steps) - 1)
    ELSE position = 0

\* C1 witness: a JumpTo past the end of a trace of at least two steps has
\* landed on the last step.
C1_Witness ==
    /\ state.trace.present
    /\ N >= 2
    /\ lastCmd.type = "JUMP"
    /\ lastCmd.payload > N - 1
    /\ position = N - 1

\* C2: isPlaying implies that a trace is present and that the position is
\* before the last step; isPlaying is never true on the last step.
C2_PlayingBeforeLastStep ==
    state.isPlaying => (state.trace.present /\ position < N - 1)

\* C3: for a trace of N >= 2 steps, Play from {position 0, not playing}
\* gives isPlaying; N-1 Advances later the position is N-1 and isPlaying is
\* false; after one more Advance the state is still that one.
C3_PlayThenAdvance ==
    (scen.played /\ N >= 2) =>
        /\ (scen.n = 0 => state.isPlaying)
        /\ (scen.n = N - 1 => (position = N - 1 /\ ~state.isPlaying))
        /\ (scen.n = N => (position = N - 1 /\ ~state.isPlaying))

\* C4 as stated: len(steps) Advances from position 0 end in position N-1
\* with isPlaying false, for every N >= 0.
C4_Original ==
    (state.trace.present /\ scen.n = N) =>
        (position = N - 1 /\ ~state.isPlaying)

\* C4 amended: len(steps) Advances from position 0 end in position
\* max(0, N-1), with isPlaying false when N >= 1 (for N = 0 no Advance is
\* applied and the position stays 0); the position is within bounds after
\* every Advance of the run.
C4_AdvanceToEnd ==
    /\ (state.trace.present /\ scen.n = N) =>
           (position = Max(0, N - 1) /\ (N >= 1 => ~state.isPlaying))
    /\ (state.trace.present /\ scen.n >= 0) =>
           (0 <= position /\ position <= Max(0, N - 1) /\ position <= scen.n)

\* C4 witness: the N-th Advance from position 0 has been applied to a trace
\* of at least two steps.
C4_Witness ==
    /\ state.trace.present
    /\ N >= 2
    /\ scen.n = N
    /\ IsAdvance(lastCmd.type)
    /\ position = N - 1

\* C5: while autoplay runs, every tick fires after the delay of the rate
\* that is current at that tick.
C5_TickUsesCurrentRate ==
    [][(lastCmd'.type = "TICK" /\ state.isPlaying)
         => lastCmd'.payload = speedToDelay(speedRef)]_vars

\* C6: setRate changes neither the reducer state nor the scheduled
\* interval: the same interval exists before and after the call.
C6_SetRateFrame ==
    [][lastCmd'.type = "SET_SPEED"
         => UNCHANGED <<state, timers, intervalRef, nextTimerId, effectDeps>>]_vars

\* C6 witness: setRate was called while an interval was scheduled and
\* autoplay was running, and it changed the stored rate.
C6_Witness ==
    /\ lastCmd.type = "SET_SPEED"
    /\ state.isPlaying
    /\ timers # {}
    /\ speedRef # DefaultSpeed

\* C7: the position never changes through a timer tick while isPlaying is
\* false (a tick after Pause is cancelled before it is applied).
C7_NoTickWhilePaused ==
    [][(lastCmd'.type = "TICK" /\ ~state.isPlaying)
         => state'.currentStepIndex = state.currentStepIndex]_vars

\* C8: once the engine is disposed no interval is scheduled and no timer
\* tick is dispatched any more.
C8_NoTimerAfterDispose ==
    [][~mounted' => (timers' = {} /\ lastCmd'.type # "TICK")]_vars

\* C8 witness: the engine was disposed while autoplay was running on the
\* interval held in intervalRef.
C8_Witness ==
    /\ ~mounted
    /\ state.isPlaying
    /\ effectDeps
    /\ intervalRef # 0

\* C9: JumpTo(i) sets the position to i clamped into
\* [0, max(0, len(steps) - 1)], sets isPlaying to false and keeps the trace.
C9_JumpClamps ==
    [][lastCmd'.type = "JUMP" =>
         /\ state'.currentStepIndex =
               (IF lastCmd'.payload < 0 THEN 0
                ELSE IF lastCmd'.payload > Max(0, N - 1) THEN Max(0, N - 1)
                ELSE lastCmd'.payload)
         /\ state'.isPlaying = FALSE
         /\ state'.trace = state.trace]_vars

\* C9 witness: a JumpTo with a negative index was applied during autoplay
\* away from position 0.
C9_Witness ==
    /\ lastCmd.type = "JUMP"
    /\ lastCmd.payload < 0
    /\ N >= 2
    /\ effectDeps
    /\ position = 0
    /\ ~state.isPlaying

\* C10: after SetTrace(t) the state is exactly {trace: t, position: 0,
\* isPlaying: false}.
C10_SetTraceResets ==
    lastCmd.type = "SET_TRACE" =>
        /\ state.trace = TraceOf(lastCmd.payload)
        /\ position = 0
        /\ state.isPlaying = FALSE

\* C10 witness: SetTrace replaced the trace while autoplay was running
\* (the interval of the previous trace is still scheduled).
C10_Witness ==
    /\ lastCmd.type = "SET_TRACE"
    /\ effectDeps
    /\ timers # {}
    /\ N >= 1

\* C11: Play leaves the whole state unchanged when the trace is absent, has
\* no steps, or the position is already the last step; in every other state
\* it sets isPlaying to true and changes neither position nor trace.
C11_PlayGuard ==
    [][lastCmd'.type = "PLAY" =>
         IF ~state.trace.present \/ N = 0 \/ position = N - 1
         THEN state' = state
         ELSE /\ state'.isPlaying = TRUE
              /\ state'.currentStepIndex = state.currentStepIndex
              /\ state'.trace = state.trace]_vars

\* C11 witness: Play was issued on the last step of a trace of at least two
\* steps and left the engine paused there.
C11_Witness ==
    /\ lastCmd.type = "PLAY"
    /\ state.trace.present
    /\ N >= 2
    /\ position = N - 1
    /\ ~state.isPlaying

\* C12: the stored rate is 1.0 at construction and always lies in
\* [0.1, 5.0]; setRate stores a value below 0.1 as 0.1, a value above 5.0 as
\* 5.0 and a value inside the range unchanged (rates in tenths).
C12_RateClamped ==
    /\ 1 <= speedRef /\ speedRef <= 50
    /\ lastCmd.type = "INIT" => speedRef = 10
    /\ lastCmd.type = "SET_SPEED" =>
          speedRef = (IF lastCmd.payload < 1 THEN 1
                      ELSE IF lastCmd.payload > 50 THEN 50
                      ELSE lastCmd.payload)

\* C12 witness: setRate was called with a value above 5.0 and 5.0 is stored.
C12_Witness ==
    /\ lastCmd.type = "SET_SPEED"
    /\ lastCmd.payload > 50
    /\ speedRef = 50

\* C13: the derived fields agree with the state: totalSteps is the number of
\* steps (0 without a trace), isAtStart is position = 0, isAtEnd is
\* position >= totalSteps - 1, and currentStep is the step at index
\* position, absent exactly when the trace is absent or empty.
C13_DerivedFields ==
    /\ engineTotalSteps = N
    /\ isAtStart <=> (position = 0)
    /\ isAtEnd <=> (position >= N - 1)
    /\ (currentStep = NullStep) <=> (~state.trace.present \/ N = 0)
    /\ (state.trace.present /\ N > 0) =>
          (currentStep.id = position
           /\ currentStep = state.trace.steps[position + 1])

\* C13 witness: the engine stands on the last step of a trace of at least
\* two steps after an Advance, and currentStep is that step.
C13_Witness ==
    /\ state.trace.present
    /\ N >= 2
    /\ IsAdvance(lastCmd.type)
    /\ position = N - 1
    /\ currentStep.id = N - 1
    /\ isAtEnd
    /\ ~isAtStart

\* C14: a consumer that reads the engine without a provider gets an error
\* at once; with a provider the read succeeds in every state.
C14_ReadFailsFast ==
    lastCmd.type \in {"READ", "READ_THROW"} =>
        /\ lastCmd.payload = 0 => lastCmd.type = "READ_THROW"
        /\ lastCmd.payload = 1 => lastCmd.type = "READ"

\* C14 witness: a consumer outside any provider has read the engine during
\* autoplay and got the error.
C14_Witness ==
    /\ lastCmd.type = "READ_THROW"
    /\ lastCmd.payload = 0
    /\ state.isPlaying

\* C15: Advance (timer TICK and stepForward alike) never wraps around or
\* decreases the position: if position + 1 >= len(steps) it sets isPlaying
\* to false and keeps position and trace; otherwise it adds exactly one to
\* the position and keeps isPlaying and trace.
C15_AdvanceFrame ==
    [][IsAdvance(lastCmd'.type) =>
         /\ state'.trace = state.trace
         /\ state'.currentStepIndex >= state.currentStepIndex
         /\ IF position + 1 >= N
            THEN /\ state'.isPlaying = FALSE
                 /\ state'.currentStepIndex = state.currentStepIndex
            ELSE /\ state'.currentStepIndex = state.currentStepIndex + 1
                 /\ state'.isPlaying = state.isPlaying]_vars

\* C15 witness: a timer tick arrived on the last step of a trace of at
\* least two steps and stopped autoplay there.
C15_Witness ==
    /\ lastCmd.type = "TICK"
    /\ state.trace.present
    /\ N >= 2
    /\ position = N - 1
    /\ ~state.isPlaying
    /\ effectDeps

\* The timer driver has reacted to the latest state: the engine is mounted
\* and no run of the effect is pending.
DriverSettled == mounted /\ ~EffectPending

\* The set of scheduled intervals changes in a step only through the
\* reaction of the timer driver to a change of isPlaying: a change to true
\* starts exactly one interval, a change to false leaves none.
TimerChangeByToggle ==
    timers' # timers =>
        /\ EffectPending
        /\ IF state.isPlaying
           THEN timers = {} /\ Cardinality(timers') = 1
           ELSE timers' = {}

\* C16 as stated: at most one interval is scheduled; once the timer driver
\* has reacted, an interval is scheduled iff isPlaying; a false-to-true
\* change starts one, a true-to-false change stops it, and no other event
\* starts or stops one.
C16_Original ==
    /\ [](Cardinality(timers) <= 1)
    /\ [](DriverSettled => (timers # {} <=> state.isPlaying))
    /\ [][TimerChangeByToggle]_vars

\* C16 amended: as stated, except that disposal of the engine is one more
\* event that stops the interval.
C16_SingleTimer ==
    /\ [](Cardinality(timers) <= 1)
    /\ [](DriverSettled => (timers # {} <=> state.isPlaying))
    /\ [][TimerChangeByToggle \/ (mounted /\ ~mounted' /\ timers' = {})]_vars

\* C16 witness: autoplay was paused, the timer driver has reacted, and the
\* interval it had started is gone.
C16_Witness ==
    /\ DriverSettled
    /\ lastCmd.type = "EFFECT"
    /\ ~state.isPlaying
    /\ intervalRef # 0
    /\ timers = {}

\* C17: after a successful Play, with no further user command and the timer
\* firing, the engine eventually is on the last step with isPlaying false
\* and no interval scheduled, and stays so.
C17_AutoplayStops ==
    [](state.isPlaying =>
         <>[](position = N - 1 /\ ~state.isPlaying /\ timers = {}))

\* C17 witness: autoplay ran to the last step of a trace of at least two
\* steps and the timer driver has stopped the interval.
C17_Witness ==
    /\ lastCmd.type = "EFFECT"
    /\ state.trace.present
    /\ N >= 2
    /\ position = N - 1
    /\ ~state.isPlaying
    /\ intervalRef # 0
    /\ timers = {}

\* C18: StepBack sets the position to max(0, position - 1) and isPlaying to
\* false and keeps the trace; at position 0 only isPlaying can change.
C18_StepBack ==
    [][lastCmd'.type = "STEP_BACK" =>
         /\ state'.currentStepIndex =
               (IF position = 0 THEN 0 ELSE position - 1)
         /\ state'.isPlaying = FALSE
         /\ state'.trace = state.trace]_vars

\* C18 witness: StepBack was issued during autoplay and the engine is at
\* position 0 of a trace of at least two steps, paused.
C18_Witness ==
    /\ lastCmd.type = "STEP_BACK"
    /\ state.trace.present
    /\ N >= 2
    /\ position = 0
    /\ scen.n = 0
    /\ effectDeps
    /\ ~state.isPlaying

IdempotentCommands == {"PLAY", "PAUSE", "RESET", "JUMP", "SET_TRACE"}

\* C19: Play, Pause, Reset, JumpTo(i) and SetTrace(t) are idempotent:
\* applying the command a second time in a row, with the same argument,
\* leaves the state as the first application left it.
C19_Idempotent ==
    [][(lastCmd' = lastCmd /\ lastCmd.type \in IdempotentCommands)
         => state' = state]_vars

\* C19 witness: Play was applied twice in a row to a trace on which it
\* takes effect, and autoplay is running.
C19_Witness ==
    /\ scen.rep
    /\ lastCmd.type = "PLAY"
    /\ state.isPlaying
    /\ position < N - 1

ReducerCommands ==
    {"PLAY", "PAUSE", "STEP_FWD", "TICK", "STEP_BACK", "RESET", "JUMP",
     "UNKNOWN"}

\* C20: every command is defined in every state; while the trace is absent
\* every command other than SetTrace (Play, Pause, Advance, StepBack,
\* JumpTo(i) for any i, Reset, an unrecognised command) leaves the state
\* equal to {trace absent, position 0, isPlaying false}.
C20_AbsentTraceAbsorbs ==
    /\ [](~state.trace.present =>
            (position = 0 /\ ~state.isPlaying /\ state.trace = NullTrace))
    /\ [][(~state.trace.present /\ lastCmd'.type \in ReducerCommands) =>
            /\ ~state'.trace.present
            /\ state'.currentStepIndex = 0
            /\ state'.isPlaying = FALSE]_vars

\* C20 witness: JumpTo with a positive index was applied while no trace was
\* loaded.
C20_Witness ==
    /\ ~state.trace.present
    /\ lastCmd.type = "JUMP"
    /\ lastCmd.payload > 0
    /\ position = 0

\* C21: the trace held by the engine changes only through SetTrace; Play,
\* Pause, Advance, StepBack, JumpTo, Reset, setRate and the start and stop
\* of the timer leave it (its steps and their order) unchanged.
C21_TraceOnlyBySetTrace ==
    [][state'.trace # state.trace => lastCmd'.type = "SET_TRACE"]_vars

\* C21 witness: Reset was applied during autoplay on a trace of at least two
\* steps, which is still loaded.
C21_Witness ==
    /\ lastCmd.type = "RESET"
    /\ effectDeps
    /\ state.trace.present
    /\ N >= 2
    /\ state.trace.steps[N].id = N - 1

\* d is 1000 / x rounded to the nearest integer, halves up (x = spd / 10)
IsRounded(d, spd) ==
    /\ 2 * spd * d - spd <= 2 * 1000 * 10
    /\ 2 * 1000 * 10 < 2 * spd * d + spd

C23_IsAtEndIsPlayGuard ==
    /\ []((~state.trace.present \/ N = 0) => isAtEnd)
    /\ [][lastCmd'.type = "PLAY" =>
            /\ isAtEnd => state' = state
            /\ ~isAtEnd => state'.isPlaying = TRUE
            /\ ~state.isPlaying => (state'.isPlaying <=> ~isAtEnd)]_vars

\* C23 witness: Play was issued on an empty trace, where isAtEnd holds, and
\* the engine is still paused.
C23_Witness ==
    /\ lastCmd.type = "PLAY"
    /\ state.trace.present
    /\ N = 0
    /\ isAtEnd
    /\ ~state.isPlaying

====
